---------------------------- MODULE Spec2Model ----------------------------
(***************************************************************************)
(* A model of the dirtree library (src/dirtree.c, POSIX branch): the       *)
(* recursive walk print_tree_to_buffer with its visited list, its entry    *)
(* filters, its sort and its line formatting, driven by                    *)
(* dirtree_generate_string and dirtree_print_to_file.                      *)
(*                                                                         *)
(* C strings are TLA+ strings.  The file system and the kernel calls the   *)
(* code makes on it (realpath, opendir, readdir, stat) are modelled as     *)
(* operators on a small table of directory nodes.                          *)
(***************************************************************************)
EXTENDS Integers, Sequences, FiniteSets, TLC

(***************************************************************************)
(* Program constants and bounds of the model.                              *)
(***************************************************************************)
\* PATH_MAX of the build (src/dirtree.c:39).
PATH_MAX == 4096
\* A short PATH_MAX, for the builds of LongInit: paths of a small hierarchy
\* then reach the size of the path buffers.
ShortPathMax == 9
\* A PATH_MAX that holds a few glyphs of either format, for the builds of
\* MidInit: the prefix of a line three levels down reaches the size of the
\* prefix buffers while the paths still fit theirs.
MidPathMax == 21
\* Initial capacity of the visited list (init_visited_dirs(&visited, 100)).
VISITED_CAPACITY == 100
\* Initial capacity of the string buffer (init_string_buffer(&sb, 4096)).
SB_CAPACITY == 4096
\* Extra room of the line buffer (char line[PATH_MAX + 100]).
LINE_EXTRA == 100
\* The kernel's limit on the symbolic links followed while resolving one
\* path (POSIX SYMLOOP_MAX; 40 on Linux), scaled down.
SYMLOOP_MAX == 2
\* The largest max_depth a configuration is given.
MaxDepthCfg == 2
\* The C stack: the deepest nesting of print_tree_to_buffer calls.
MaxStack == 12

NULL == "NULL"

\* F(v), with v evaluated once (an argument is otherwise evaluated again
\* at each of its uses).
Once(v, F(_)) == CHOOSE r \in {F(x) : x \in {v}} : TRUE

(***************************************************************************)
(* C strings.                                                              *)
(***************************************************************************)
\* The byte values of the printable ASCII characters (the double quote, the
\* backslash and the backquote are left out).
Ascii ==
    " " :> 32 @@ "!" :> 33 @@ "#" :> 35 @@ "$" :> 36 @@ "%" :> 37 @@ "&" :> 38 @@
    "'" :> 39 @@ "(" :> 40 @@ ")" :> 41 @@ "*" :> 42 @@ "+" :> 43 @@ "," :> 44 @@
    "-" :> 45 @@ "." :> 46 @@ "/" :> 47 @@ "0" :> 48 @@ "1" :> 49 @@ "2" :> 50 @@
    "3" :> 51 @@ "4" :> 52 @@ "5" :> 53 @@ "6" :> 54 @@ "7" :> 55 @@ "8" :> 56 @@
    "9" :> 57 @@ ":" :> 58 @@ ";" :> 59 @@ "<" :> 60 @@ "=" :> 61 @@ ">" :> 62 @@
    "?" :> 63 @@ "@" :> 64 @@ "A" :> 65 @@ "B" :> 66 @@ "C" :> 67 @@ "D" :> 68 @@
    "E" :> 69 @@ "F" :> 70 @@ "G" :> 71 @@ "H" :> 72 @@ "I" :> 73 @@ "J" :> 74 @@
    "K" :> 75 @@ "L" :> 76 @@ "M" :> 77 @@ "N" :> 78 @@ "O" :> 79 @@ "P" :> 80 @@
    "Q" :> 81 @@ "R" :> 82 @@ "S" :> 83 @@ "T" :> 84 @@ "U" :> 85 @@ "V" :> 86 @@
    "W" :> 87 @@ "X" :> 88 @@ "Y" :> 89 @@ "Z" :> 90 @@ "[" :> 91 @@ "]" :> 93 @@
    "^" :> 94 @@ "_" :> 95 @@ "a" :> 97 @@ "b" :> 98 @@ "c" :> 99 @@ "d" :> 100 @@
    "e" :> 101 @@ "f" :> 102 @@ "g" :> 103 @@ "h" :> 104 @@ "i" :> 105 @@ "j" :> 106 @@
    "k" :> 107 @@ "l" :> 108 @@ "m" :> 109 @@ "n" :> 110 @@ "o" :> 111 @@ "p" :> 112 @@
    "q" :> 113 @@ "r" :> 114 @@ "s" :> 115 @@ "t" :> 116 @@ "u" :> 117 @@ "v" :> 118 @@
    "w" :> 119 @@ "x" :> 120 @@ "y" :> 121 @@ "z" :> 122 @@ "{" :> 123 @@ "|" :> 124 @@
    "}" :> 125 @@ "~" :> 126

\* The byte value of a one-character string.
CharCode(c) == Ascii[c]

\* strcmp(a, b): negative, zero or positive, comparing byte by byte.
RECURSIVE strcmp(_, _)
strcmp(a, b) ==
    IF a = b THEN 0
    ELSE IF a = "" THEN 0 - CharCode(Head(b))
    ELSE IF b = "" THEN CharCode(Head(a))
    ELSE IF Head(a) # Head(b) THEN CharCode(Head(a)) - CharCode(Head(b))
    ELSE strcmp(Tail(a), Tail(b))

\* snprintf(buf, size, "%s...", s): s cut to size - 1 bytes.
Snprintf(size, s) == IF Len(s) > size - 1 THEN SubSeq(s, 1, size - 1) ELSE s

\* strrchr(s, '/'): the index of the last '/' of s, 0 when there is none.
RECURSIVE strrchr_slash(_, _)
strrchr_slash(s, i) ==
    IF i = 0 THEN 0
    ELSE IF SubSeq(s, i, i) = "/" THEN i
    ELSE strrchr_slash(s, i - 1)

(***************************************************************************)
(* The file system.  A hierarchy is a table of directory nodes; node 1 is  *)
(* "/".  An entry of a directory has a name, its own type ("reg", "dir" or *)
(* "lnk", what lstat would say), and what following it gives: `to` is the  *)
(* directory node it leads to (0: not a directory) and `ok` is FALSE for a *)
(* dangling link.                                                          *)
(***************************************************************************)
Reg(n)      == [name |-> n, type |-> "reg", to |-> 0, ok |-> TRUE]
Dir(n, d)   == [name |-> n, type |-> "dir", to |-> d, ok |-> TRUE]
LnkDir(n, d) == [name |-> n, type |-> "lnk", to |-> d, ok |-> TRUE]
LnkReg(n)   == [name |-> n, type |-> "lnk", to |-> 0, ok |-> TRUE]
Dangling(n) == [name |-> n, type |-> "lnk", to |-> 0, ok |-> FALSE]

Node(real, parent, readable, entries) ==
    [real |-> real, parent |-> parent, readable |-> readable, entries |-> entries]

\* /proj: b.txt, a/ (empty), .git/ (the scenario of the documentation).
FsProj ==
    [nodes |-> << Node("/", 1, TRUE, {Dir("proj", 2)}),
                  Node("/proj", 1, TRUE, {Reg("b.txt"), Dir("a", 3), Dir(".git", 4)}),
                  Node("/proj/a", 2, TRUE, {}),
                  Node("/proj/.git", 2, TRUE, {Reg("HEAD")}) >>,
     cwd |-> 2,
     args |-> {"/proj", ".", "/proj/b.txt", "/nope", NULL}]

\* /w: three levels of directories.
FsDeep ==
    [nodes |-> << Node("/", 1, TRUE, {Dir("w", 2)}),
                  Node("/w", 1, TRUE, {Dir("src", 3), Reg("README.md"), Reg("Makefile")}),
                  Node("/w/src", 2, TRUE, {Dir("lib", 4), Reg("main.c")}),
                  Node("/w/src/lib", 3, TRUE, {Reg("x.c"), Reg("X.h")}) >>,
     cwd |-> 1,
     args |-> {"/w", "w/", "/w/src/.."}]

\* /app: names of the built-in and custom skip lists, and hidden names.
FsSkips ==
    [nodes |-> << Node("/", 1, TRUE, {Dir("app", 2)}),
                  Node("/app", 1, TRUE, {Dir("node_modules", 3), Dir("build", 4), Dir(".cache", 5)}),
                  Node("/app/node_modules", 2, TRUE, {Dir("pkg", 6), Reg(".env")}),
                  Node("/app/build", 2, TRUE, {Reg("Thumbs.db"), Reg(".x"), Reg("out")}),
                  Node("/app/.cache", 2, TRUE, {Reg("c")}),
                  Node("/app/node_modules/pkg", 3, TRUE, {Reg("i.js")}) >>,
     cwd |-> 2,
     args |-> {"/app"}]

\* /r: symbolic links that make no cycle: l -> a, g -> f, d dangling.
FsLinks ==
    [nodes |-> << Node("/", 1, TRUE, {Dir("r", 2), LnkDir("s", 2)}),
                  Node("/r", 1, TRUE, {Dir("a", 3), LnkDir("l", 3), Dangling("d")}),
                  Node("/r/a", 2, TRUE, {Reg("f"), LnkReg("g")}) >>,
     cwd |-> 2,
     args |-> {"/r", "/s", "/r/d"}]

\* /r: a symbolic link to an ancestor: a/up -> /r.
FsLoop ==
    [nodes |-> << Node("/", 1, TRUE, {Dir("r", 2)}),
                  Node("/r", 1, TRUE, {Dir("a", 3), Reg("f")}),
                  Node("/r/a", 2, TRUE, {LnkDir("up", 2)}) >>,
     cwd |-> 2,
     args |-> {"/r", "/r/a"}]

\* /r: a symbolic link to its own directory: loop -> /r.
FsSelf ==
    [nodes |-> << Node("/", 1, TRUE, {Dir("r", 2)}),
                  Node("/r", 1, TRUE, {LnkDir("loop", 2), Reg("k")}) >>,
     cwd |-> 2,
     args |-> {"/r"}]

\* /r: a directory that cannot be opened.
FsLocked ==
    [nodes |-> << Node("/", 1, TRUE, {Dir("r", 2)}),
                  Node("/r", 1, TRUE, {Dir("locked", 3), Reg("z"), Dir("open", 4)}),
                  Node("/r/locked", 2, FALSE, {Reg("s")}),
                  Node("/r/open", 2, TRUE, {Reg("o")}) >>,
     cwd |-> 2,
     args |-> {"/r", "/r/locked"}]

\* /n: directories with short names, one in the other.
FsNest ==
    [nodes |-> << Node("/", 1, TRUE, {Dir("n", 2)}),
                  Node("/n", 1, TRUE, {Dir("a", 3), Reg("z")}),
                  Node("/n/a", 2, TRUE, {Dir("b", 4), Reg("y")}),
                  Node("/n/a/b", 3, TRUE, {Reg("c"), Dir("e", 5)}),
                  Node("/n/a/b/e", 4, TRUE, {Reg("f")}) >>,
     cwd |-> 2,
     args |-> {"/n", "/n/a/b/e"}]

Hierarchies ==
    <<FsProj, FsDeep, FsSkips, FsLinks, FsLoop, FsSelf, FsLocked, FsNest>>

(***************************************************************************)
(* Path resolution, as the kernel does it for realpath, opendir and stat:  *)
(* component by component, following every symbolic link on the way and    *)
(* the last one too.                                                       *)
(***************************************************************************)
\* The components of a path: its maximal '/'-free pieces.
RECURSIVE Split(_, _)
Split(s, cur) ==
    IF s = "" THEN (IF cur = "" THEN <<>> ELSE <<cur>>)
    ELSE IF Head(s) = "/"
         THEN (IF cur = "" THEN <<>> ELSE <<cur>>) \o Split(Tail(s), "")
         ELSE Split(Tail(s), cur \o Head(s))

NoEnt == [ok |-> FALSE, kind |-> "none", node |-> 0, real |-> "", nsym |-> 0]

JoinReal(d, n) == IF d = "/" THEN d \o n ELSE d \o "/" \o n

\* One component c of a path, from the place `at` reached so far.
Step(f, at, c) ==
    IF at.kind # "dir" THEN NoEnt                            \* ENOTDIR
    ELSE LET d == f.nodes[at.node]
             es == {e \in d.entries : e.name = c}
         IN  IF c = "." THEN at
             ELSE IF c = ".."
                  THEN [at EXCEPT !.node = d.parent, !.real = f.nodes[d.parent].real]
             ELSE IF es = {} THEN NoEnt                      \* ENOENT
             ELSE LET e == CHOOSE x \in es : TRUE
                      n == IF e.type = "lnk" THEN at.nsym + 1 ELSE at.nsym
                  IN  IF n > SYMLOOP_MAX THEN NoEnt          \* ELOOP
                      ELSE IF ~e.ok THEN NoEnt               \* dangling link
                      ELSE IF e.to # 0
                           THEN [ok |-> TRUE, kind |-> "dir", node |-> e.to,
                                 real |-> f.nodes[e.to].real, nsym |-> n]
                           ELSE [ok |-> TRUE, kind |-> "reg", node |-> 0,
                                 real |-> JoinReal(d.real, c), nsym |-> n]

RECURSIVE Lookup(_, _, _)
Lookup(f, comps, at) ==
    IF comps = <<>> \/ ~at.ok THEN at
    ELSE Once(Step(f, at, Head(comps)), LAMBDA nxt : Lookup(f, Tail(comps), nxt))

\* A path with a trailing '/' names a directory only.
DirIfSlash(path, r) ==
    IF r.ok /\ r.kind # "dir" /\ SubSeq(path, Len(path), Len(path)) = "/"
    THEN NoEnt                                               \* ENOTDIR
    ELSE r

Resolve(f, path) ==
    IF path = "" THEN NoEnt
    ELSE LET start == IF Head(path) = "/" THEN 1 ELSE f.cwd
         IN  Once(Split(path, ""), LAMBDA comps :
             Once(Lookup(f, comps,
                         [ok |-> TRUE, kind |-> "dir", node |-> start,
                          real |-> f.nodes[start].real, nsym |-> 0]),
                  LAMBDA r : DirIfSlash(path, r)))

(***************************************************************************)
(* The kernel calls of the walk.                                           *)
(***************************************************************************)
\* realpath(path, abs_path): the canonical absolute path, NULL on failure.
realpath(f, path) ==
    Once(Resolve(f, path), LAMBDA r : IF r.ok THEN r.real ELSE NULL)

\* An opendir that needs no read permission.
opendir_unchecked(f, dir) ==
    Once(Resolve(f, dir), LAMBDA r : r.ok /\ r.kind = "dir")

\* opendir(dir) succeeds on a directory that can be read.
opendir_ok(f, dir) ==
    Once(Resolve(f, dir),
         LAMBDA r : r.ok /\ r.kind = "dir" /\ f.nodes[r.node].readable)

\* The d_name values readdir returns for an open directory, "." and ".."
\* among them.
readdir_names(f, dir) ==
    {".", ".."} \cup {e.name : e \in f.nodes[Resolve(f, dir).node].entries}

\* stat(path, &st): st.ok says that it returned 0.  stat follows symbolic
\* links, so st describes what the path finally names.
stat(f, path) == Resolve(f, path)

\* S_ISDIR(st.st_mode) after a successful stat(path, &st).
S_ISDIR(st) == st.kind = "dir"

\* Every order in which readdir may return the names of S.
RECURSIVE Orders(_)
Orders(S) ==
    IF S = {} THEN {<<>>}
    ELSE UNION {{<<n>> \o t : t \in Orders(S \ {n})} : n \in S}

(***************************************************************************)
(* Tables of the program.                                                  *)
(***************************************************************************)
DIRTREE_FORMAT_ASCII == 0
DIRTREE_FORMAT_UNICODE == 1

\* tree_chars[format][k].  A box-drawing character, three bytes in UTF-8,
\* is written as three ASCII characters: "<T>" for U+251C, "<->" for
\* U+2500, "<L>" for U+2514 and "<I>" for U+2502.
tree_chars ==
    << << "|-- ", "+-- ", "|   ", "    " >>,
       << "<T><-><-> ", "<L><-><-> ", "<I>   ", "    " >> >>

TREE_BRANCH(fmt)   == tree_chars[fmt + 1][1]
TREE_CORNER(fmt)   == tree_chars[fmt + 1][2]
TREE_VERTICAL(fmt) == tree_chars[fmt + 1][3]
TREE_SPACE(fmt)    == tree_chars[fmt + 1][4]

default_skiplist ==
    << "node_modules", ".git", ".vscode", "__pycache__", "venv", ".idea",
       "$RECYCLE.BIN", "System Volume Information", "Windows.old", "AppData",
       "Temp" >>

default_skipfiles ==
    << ".gitignore", ".DS_Store", "Thumbs.db", ".env", "desktop.ini",
       "ntuser.dat", "NTUSER.DAT", "ntuser.dat.LOG1", "ntuser.dat.LOG2",
       "ntuser.ini" >>

(***************************************************************************)
(* The state.                                                              *)
(***************************************************************************)
VARIABLES
    fs,         \* the hierarchy on disk: an index of Hierarchies
    path_max,   \* PATH_MAX of the build
    config,     \* the DirtreeConfig of the caller
    dirpath,    \* the dirpath argument
    pc,         \* "idle", "walking", "returned" (dirtree_generate_string has
                \* returned) or "done" (dirtree_print_to_file has too)
    abs_dir,    \* dirtree_generate_string's abs_dir
    sb,         \* the StringBuffer
    visited,    \* the VisitedDirs
    stack,      \* the active calls of print_tree_to_buffer, innermost last
    result,     \* what dirtree_generate_string returned
    ret,        \* what dirtree_print_to_file returned
    output,     \* what dirtree_print_to_file wrote to its FILE
    calls,      \* history: every call of print_tree_to_buffer and how it went
    emitted,    \* history: every entry line appended to sb
    lastShuffled \* history: the last listing was out of order before qsort

vars == << fs, path_max, config, dirpath, pc, abs_dir, sb, visited, stack,
           result, ret, output, calls, emitted, lastShuffled >>

FS == Hierarchies[fs]

(***************************************************************************)
(* VisitedDirs (src/dirtree.c:94-163).                                     *)
(***************************************************************************)
\* A list that still holds the root of the call before.
init_visited_dirs_stale(capacity) ==
    IF abs_dir = NULL THEN [paths |-> <<>>, size |-> 0, capacity |-> capacity]
    ELSE [paths |-> <<abs_dir>>, size |-> 1, capacity |-> capacity]

init_visited_dirs(capacity) ==
    [paths |-> <<>>, size |-> 0, capacity |-> capacity]

\* A lookup that never finds the path.
is_visited_never(v, path) == FALSE

is_visited(v, path) == \E i \in 1..v.size : strcmp(v.paths[i], path) = 0

mark_visited(v, path) ==
    [paths |-> Append(v.paths, path),
     size |-> v.size + 1,
     capacity |-> IF v.size >= v.capacity THEN v.capacity * 2 ELSE v.capacity]

\* free_visited_dirs: nothing of the list is left.
free_visited_dirs(v) == [paths |-> <<>>, size |-> 0, capacity |-> 0]

(***************************************************************************)
(* The entry filters (src/dirtree.c:184-244).                              *)
(***************************************************************************)
InList(name, list) == \E i \in 1..Len(list) : strcmp(name, list[i]) = 0

IsHidden(name) == name # "" /\ Head(name) = "."

\* The directory filter without its built-in list.
should_skip_dir_custom_only(name, cfg) ==
    IF ~cfg.skip_common THEN FALSE
    ELSE IF InList(name, cfg.custom_skip_dirs) THEN TRUE
    ELSE IF cfg.skip_hidden /\ IsHidden(name) THEN TRUE
    ELSE FALSE

should_skip_dir(name, cfg) ==
    IF ~cfg.skip_common THEN FALSE
    ELSE IF InList(name, default_skiplist) THEN TRUE
    ELSE IF InList(name, cfg.custom_skip_dirs) THEN TRUE
    ELSE IF cfg.skip_hidden /\ IsHidden(name) THEN TRUE
    ELSE FALSE

should_skip_file(name, cfg) ==
    IF ~cfg.skip_common THEN FALSE
    ELSE IF InList(name, default_skipfiles) THEN TRUE
    ELSE IF InList(name, cfg.custom_skip_files) THEN TRUE
    ELSE IF cfg.skip_hidden /\ IsHidden(name) THEN TRUE
    ELSE FALSE

(***************************************************************************)
(* StringBuffer (src/dirtree.c:246-295).                                   *)
(***************************************************************************)
init_string_buffer(initial_capacity) ==
    [buffer |-> "", size |-> 0, capacity |-> initial_capacity]

RECURSIVE GrowTo(_, _)
GrowTo(capacity, new_size) ==
    IF capacity < new_size THEN GrowTo(capacity * 2, new_size) ELSE capacity

string_buffer_append(b, str) ==
    LET len == Len(str)
        new_size == b.size + len + 1
    IN  [buffer |-> b.buffer \o str,
         size |-> b.size + len,
         capacity |-> IF new_size > b.capacity
                      THEN GrowTo(b.capacity * 2, new_size)
                      ELSE b.capacity]

string_buffer_release(b) == b.buffer

(***************************************************************************)
(* print_tree_to_buffer (src/dirtree.c:297-476), POSIX branch.             *)
(***************************************************************************)
\* A depth guard that is off by one.
DepthReached(cfg, current_depth) ==
    cfg.max_depth > 0 /\ current_depth >= cfg.max_depth

\* The depth guard at the head of the walk.
DepthExceeded(cfg, current_depth) ==
    cfg.max_depth > 0 /\ current_depth > cfg.max_depth

\* One round of the readdir loop: the items entry `name` of `dir` adds (one
\* or none).
ReadEntry(f, cfg, size, dir, name) ==
    IF strcmp(name, ".") = 0 \/ strcmp(name, "..") = 0 THEN {}
    ELSE Once(Snprintf(size, dir \o "/" \o name), LAMBDA path :
         Once(stat(f, path), LAMBDA st :
           IF ~st.ok THEN {}
           ELSE LET is_directory == S_ISDIR(st)
                IN  IF is_directory /\ should_skip_dir(name, cfg) THEN {}
                    ELSE IF ~is_directory /\ should_skip_file(name, cfg) THEN {}
                    ELSE { [path |-> path, name |-> name, is_dir |-> is_directory] }))

\* tolower of a byte value.
ToLower(code) == IF code >= 65 /\ code <= 90 THEN code + 32 ELSE code

\* strcasecmp(a, b): strcmp without regard to case.
RECURSIVE strcasecmp(_, _)
strcasecmp(a, b) ==
    IF a = b THEN 0
    ELSE IF a = "" THEN 0 - ToLower(CharCode(Head(b)))
    ELSE IF b = "" THEN ToLower(CharCode(Head(a)))
    ELSE IF ToLower(CharCode(Head(a))) # ToLower(CharCode(Head(b)))
         THEN ToLower(CharCode(Head(a))) - ToLower(CharCode(Head(b)))
    ELSE strcasecmp(Tail(a), Tail(b))

\* A comparison that ignores case.
compare_entries_nocase(a, b) == strcasecmp(a.name, b.name)

compare_entries(a, b) == strcmp(a.name, b.name)

\* qsort(items, count, sizeof(DirEntry), compare_entries).
RECURSIVE InsertSorted(_, _)
InsertSorted(e, s) ==
    IF s = <<>> THEN <<e>>
    ELSE IF compare_entries(e, Head(s)) <= 0 THEN <<e>> \o s
    ELSE <<Head(s)>> \o InsertSorted(e, Tail(s))

RECURSIVE qsort(_)
qsort(items) ==
    IF items = <<>> THEN <<>>
    ELSE Once(qsort(Tail(items)), LAMBDA s : InsertSorted(Head(items), s))

\* A last-item test that is off by one.
is_last_past(i, count) == (i = count)

is_last(i, count) == (i = count - 1)

current_prefix(size, prefix, fmt, last) ==
    Snprintf(size, prefix \o (IF last THEN TREE_CORNER(fmt) ELSE TREE_BRANCH(fmt)))

next_prefix(size, prefix, fmt, last) ==
    Snprintf(size, prefix \o (IF last THEN TREE_SPACE(fmt) ELSE TREE_VERTICAL(fmt)))

FormatLine(size, cur_prefix, name) ==
    Snprintf(size + LINE_EXTRA, cur_prefix \o name \o "\n")

Frame(dir, prefix, depth, call) ==
    [dir |-> dir, prefix |-> prefix, current_depth |-> depth, at |-> "enter",
     items |-> <<>>, i |-> 0, call |-> call]

Top == stack[Len(stack)]
Pop == SubSeq(stack, 1, Len(stack) - 1)
SetTop(fr) == [stack EXCEPT ![Len(stack)] = fr]
Outcome(call, how) == [calls EXCEPT ![call].outcome = how]

\* The head of the walk: the depth guard, the visited guard, mark_visited.
WalkEnter ==
    /\ pc = "walking" /\ stack # <<>> /\ Top.at = "enter"
    /\ IF DepthExceeded(config, Top.current_depth)
       THEN /\ stack' = Pop
            /\ calls' = Outcome(Top.call, "depth")
            /\ UNCHANGED visited
       ELSE IF is_visited(visited, Top.dir)
       THEN /\ stack' = Pop
            /\ calls' = Outcome(Top.call, "visited")
            /\ UNCHANGED visited
       ELSE /\ visited' = mark_visited(visited, Top.dir)
            /\ stack' = SetTop([Top EXCEPT !.at = "list"])
            /\ calls' = Outcome(Top.call, "marked")
    /\ UNCHANGED << fs, path_max, config, dirpath, pc, abs_dir, sb, result,
                    ret, output, emitted, lastShuffled >>

\* The entries of `dir` that the readdir loop keeps, whatever the order.
Kept(f, cfg, size, dir) ==
    UNION { ReadEntry(f, cfg, size, dir, n) : n \in readdir_names(f, dir) }

\* opendir, the readdir loop and qsort.  readdir gives the names in an order
\* of its own, so the loop collects the kept entries in any order.
WalkList ==
    /\ pc = "walking" /\ stack # <<>> /\ Top.at = "list"
    /\ IF ~opendir_ok(FS, Top.dir)
       THEN /\ stack' = Pop
            /\ calls' = Outcome(Top.call, "noopen")
            /\ UNCHANGED lastShuffled
       ELSE \E kept \in {Kept(FS, config, path_max, Top.dir)} :
            \E items \in Orders(kept) :
            \E sorted \in {qsort(items)} :
              /\ lastShuffled' = (items # sorted)
              /\ stack' = SetTop([Top EXCEPT !.at = "loop", !.items = sorted, !.i = 0])
              /\ calls' = [calls EXCEPT ![Top.call].outcome = "listed",
                                        ![Top.call].node = Resolve(FS, Top.dir).node]
    /\ UNCHANGED << fs, path_max, config, dirpath, pc, abs_dir, sb, visited,
                    result, ret, output, emitted >>

\* One round of the loop over the sorted items: the line of item i and, for
\* a directory, the recursive call (the round ends when that call is back).
WalkItem ==
    /\ pc = "walking" /\ stack # <<>> /\ Top.at = "loop"
    /\ Top.i < Len(Top.items)
    /\ LET item == Top.items[Top.i + 1]
           last == is_last(Top.i, Len(Top.items))
           cur  == current_prefix(path_max, Top.prefix, config.format, last)
           nxt  == next_prefix(path_max, Top.prefix, config.format, last)
           line == FormatLine(path_max, cur, item.name)
           back == [Top EXCEPT !.i = Top.i + 1]
       IN  /\ item.is_dir => Len(stack) < MaxStack
           /\ sb' = string_buffer_append(sb, line)
           /\ emitted' = Append(emitted,
                  [line |-> line, name |-> item.name, path |-> item.path,
                   is_dir |-> item.is_dir, idx |-> Top.i, count |-> Len(Top.items),
                   prefix |-> Top.prefix, next_prefix |-> nxt,
                   depth |-> Top.current_depth, call |-> Top.call])
           /\ IF item.is_dir
              THEN /\ stack' = Append(SetTop(back),
                                      Frame(item.path, nxt, Top.current_depth + 1,
                                            Len(calls) + 1))
                   /\ calls' = Append(calls,
                          [dir |-> item.path, depth |-> Top.current_depth + 1,
                           prefix |-> nxt, from |-> Len(emitted) + 1,
                           outcome |-> "pending", node |-> 0])
              ELSE /\ stack' = SetTop(back)
                   /\ UNCHANGED calls
    /\ UNCHANGED << fs, path_max, config, dirpath, pc, abs_dir, visited,
                    result, ret, output, lastShuffled >>

\* The end of the loop: free(items) and return.
WalkReturn ==
    /\ pc = "walking" /\ stack # <<>> /\ Top.at = "loop"
    /\ Top.i >= Len(Top.items)
    /\ stack' = Pop
    /\ UNCHANGED << fs, path_max, config, dirpath, pc, abs_dir, sb, visited,
                    result, ret, output, calls, emitted, lastShuffled >>

(***************************************************************************)
(* dirtree_generate_string (src/dirtree.c:572-619).                        *)
(***************************************************************************)
\* The name of the root line: what follows the last '/' of abs_dir.
base_name(abs) ==
    LET k == strrchr_slash(abs, Len(abs))
    IN  IF k = 0 THEN abs ELSE SubSeq(abs, k + 1, Len(abs))

\* The call up to the start of the walk.
Generate ==
    /\ pc = "idle"
    /\ IF dirpath = NULL
       THEN /\ result' = NULL /\ pc' = "returned"
            /\ UNCHANGED << abs_dir, sb, visited, stack, calls >>
       ELSE \E abs \in {realpath(FS, dirpath)} :
                IF abs = NULL
                THEN /\ result' = NULL /\ pc' = "returned"
                     /\ UNCHANGED << abs_dir, sb, visited, stack, calls >>
                ELSE /\ abs_dir' = abs
                     /\ sb' = string_buffer_append(
                                  string_buffer_append(
                                      init_string_buffer(SB_CAPACITY), base_name(abs)),
                                  "\n")
                     /\ visited' = init_visited_dirs(VISITED_CAPACITY)
                     /\ stack' = << Frame(abs, "", 1, 1) >>
                     /\ calls' = << [dir |-> abs, depth |-> 1, prefix |-> "",
                                     from |-> 0, outcome |-> "pending", node |-> 0] >>
                     /\ pc' = "walking"
                     /\ UNCHANGED result
    /\ UNCHANGED << fs, path_max, config, dirpath, ret, output, emitted, lastShuffled >>

\* The walk is back: clean up and return the string.
Finish ==
    /\ pc = "walking" /\ stack = <<>>
    /\ visited' = free_visited_dirs(visited)
    /\ result' = string_buffer_release(sb)
    /\ pc' = "returned"
    /\ UNCHANGED << fs, path_max, config, dirpath, abs_dir, sb, stack, ret,
                    output, calls, emitted, lastShuffled >>

(***************************************************************************)
(* dirtree_print_to_file (src/dirtree.c:621-636), when it was the caller   *)
(* of dirtree_generate_string: the part after that call.  fputs may fail.  *)
(***************************************************************************)
PrintToFile ==
    /\ pc = "returned"
    /\ pc' = "done"
    /\ IF result = NULL
       THEN ret' = -1 /\ UNCHANGED output
       ELSE \/ output' = output \o result /\ ret' = 0
            \/ ret' = -1 /\ UNCHANGED output
    /\ UNCHANGED << fs, path_max, config, dirpath, abs_dir, sb, visited, stack,
                    result, calls, emitted, lastShuffled >>

(***************************************************************************)
(* The calls the model makes.                                              *)
(***************************************************************************)
CustomLists ==
    { [dirs |-> <<>>, files |-> <<>>],
      [dirs |-> <<"build">>, files |-> <<"README.md">>] }

Configs ==
    { [max_depth |-> d, skip_hidden |-> h, skip_common |-> c, format |-> fmt,
       custom_skip_dirs |-> cl.dirs, custom_skip_files |-> cl.files] :
        d \in -1..MaxDepthCfg, h \in BOOLEAN, c \in BOOLEAN,
        fmt \in {DIRTREE_FORMAT_ASCII, DIRTREE_FORMAT_UNICODE},
        cl \in CustomLists }

InitCall ==
    /\ fs \in 1..Len(Hierarchies)
    /\ dirpath \in Hierarchies[fs].args
    /\ config \in Configs
    /\ pc = "idle"
    /\ abs_dir = NULL
    /\ sb = init_string_buffer(0)
    /\ visited = init_visited_dirs(0)
    /\ stack = <<>>
    /\ result = NULL
    /\ ret = 0
    /\ output = ""
    /\ calls = <<>>
    /\ emitted = <<>>
    /\ lastShuffled = FALSE

\* The build of the repository.
Init == InitCall /\ path_max = PATH_MAX

\* A build with a short PATH_MAX.
LongInit == InitCall /\ path_max = ShortPathMax

Next ==
    \/ Generate
    \/ WalkEnter
    \/ WalkList
    \/ WalkItem
    \/ WalkReturn
    \/ Finish
    \/ PrintToFile

Spec == Init /\ [][Next]_vars

LongSpec == LongInit /\ [][Next]_vars

\* A build whose PATH_MAX is a few glyphs long.
MidInit == InitCall /\ path_max = MidPathMax

MidSpec == MidInit /\ [][Next]_vars

\* The code is sequential: a call that can take a step takes it.
TermSpec == (Init \/ LongInit) /\ [][Next]_vars /\ WF_vars(Next)

\* The caller, with the string of a call in hand, calls
\* dirtree_generate_string again with the same arguments.  The locals of the
\* call that is over are gone; its string stays with the caller.
Again ==
    /\ pc = "returned"
    /\ pc' = "idle"
    /\ calls' = <<>>
    /\ emitted' = <<>>
    /\ lastShuffled' = FALSE
    /\ UNCHANGED << fs, path_max, config, dirpath, abs_dir, sb, visited, stack,
                    result, ret, output >>

RepeatNext == Next \/ Again

\* Calls in sequence on an unchanged file system.
RepeatSpec == Init /\ [][RepeatNext]_vars

(***************************************************************************)
(* Vocabulary of the properties.                                           *)
(***************************************************************************)
\* dirtree_generate_string has returned.
Returned == pc \in {"returned", "done"}

\* The indices of the lines call c of print_tree_to_buffer emitted.
LinesOf(c) == {k \in 1..Len(emitted) : emitted[k].call = c}

\* The calls that listed their directory.
Listed == {c \in 1..Len(calls) : calls[c].outcome = "listed"}

\* The calls that are over.
Over(c) == \A i \in 1..Len(stack) : stack[i].call # c

\* The directory entry line k is about, as it is on disk.
EntryOf(k) ==
    CHOOSE e \in FS.nodes[calls[emitted[k].call].node].entries :
        e.name = emitted[k].name

\* Node a is node n or one of its ancestors.
RECURSIVE AncestorOrSelf(_, _, _)
AncestorOrSelf(f, a, n) ==
    IF a = n THEN TRUE
    ELSE IF n = 1 THEN FALSE
    ELSE AncestorOrSelf(f, a, f.nodes[n].parent)

\* The hierarchy has a cycle: a link to a directory at or above its own.
HasCycle(f) ==
    \E n \in 1..Len(f.nodes) : \E e \in f.nodes[n].entries :
        e.type = "lnk" /\ e.to # 0 /\ AncestorOrSelf(f, e.to, n)

\* The entry lines of the output, one after the other.
RECURSIVE ConcatLines(_)
ConcatLines(k) == IF k = 0 THEN "" ELSE ConcatLines(k - 1) \o emitted[k].line

\* The root was a directory that resolves.
RootIsDir == dirpath # NULL /\ Resolve(FS, dirpath).ok /\ Resolve(FS, dirpath).kind = "dir"

(***************************************************************************)
(* C1.  In one traversal every canonical directory is expanded (listed) at *)
(* most once, by whatever routes the walk arrives at it.                   *)
(***************************************************************************)
C1_ExpandedOnce ==
    \A c, d \in Listed : c # d => calls[c].node # calls[d].node

(***************************************************************************)
(* C2.  On a hierarchy with a cycle and with unlimited depth               *)
(* (max_depth <= 0), a traversal that has started ends:                    *)
(* dirtree_generate_string returns its string.                             *)
(***************************************************************************)
C2_Terminates ==
    (pc = "walking" /\ HasCycle(FS) /\ config.max_depth <= 0)
        ~> (pc = "returned" /\ result # NULL)

\* A traversal of a cyclic hierarchy that went round the cycle has returned.
C2_Witness ==
    /\ pc = "returned" /\ result # NULL
    /\ HasCycle(FS) /\ config.max_depth <= 0
    /\ \E c, d \in Listed : c # d /\ calls[c].node = calls[d].node

(***************************************************************************)
(* C3.  An entry that is a symbolic link to a directory is a leaf: its     *)
(* line is not a directory's and the walk is never called on it.           *)
(***************************************************************************)
C3_SymlinkIsLeaf ==
    \A k \in 1..Len(emitted) :
        (EntryOf(k).type = "lnk" /\ EntryOf(k).to # 0)
            => /\ ~emitted[k].is_dir
               /\ \A c \in 1..Len(calls) : calls[c].from # k

(***************************************************************************)
(* C4.  With skip_hidden set, should_skip_dir and should_skip_file skip    *)
(* every name that begins with '.', whatever skip_common is, so no such    *)
(* entry of a listed directory gets a line.                                *)
(***************************************************************************)
C4_HiddenSkipped ==
    config.skip_hidden =>
        \A c \in Listed : \A e \in FS.nodes[calls[c].node].entries :
            IsHidden(e.name)
                => /\ should_skip_dir(e.name, config)
                   /\ should_skip_file(e.name, config)
                   /\ \A k \in LinesOf(c) : emitted[k].name # e.name

(***************************************************************************)
(* C5.  A root that does not exist, does not resolve or is no directory    *)
(* makes the call fail (NULL, -1) and nothing is output: no root line in   *)
(* the buffer, in the returned string or in the file.                      *)
(***************************************************************************)
C5_BadRootFails ==
    ~RootIsDir =>
        /\ sb.buffer = "" /\ output = ""
        /\ Returned => result = NULL
        /\ pc = "done" => ret = -1

(***************************************************************************)
(* C6.  On a hierarchy without cycles the traversal emits one line for     *)
(* every entry that passes the filter within the depth bound (a link being *)
(* an entry of its own type), and no other: the number of entry lines is   *)
(* the number of such entries.                                             *)
(***************************************************************************)
\* An entry that can be examined (no dangling link) and that the filter of
\* its own type lets through.
PassesFilter(e, cfg) ==
    /\ e.ok
    /\ IF e.type = "dir" THEN ~should_skip_dir(e.name, cfg)
       ELSE ~should_skip_file(e.name, cfg)

RECURSIVE ExpectedLines(_, _, _, _)
RECURSIVE ExpectedIn(_, _, _, _)
\* The entries to show of the entry set S of a directory walked at `depth`.
ExpectedIn(f, cfg, S, depth) ==
    IF S = {} THEN 0
    ELSE LET e == CHOOSE x \in S : TRUE
         IN  (IF ~PassesFilter(e, cfg) THEN 0
              ELSE IF e.type = "dir" THEN 1 + ExpectedLines(f, cfg, e.to, depth + 1)
              ELSE 1)
             + ExpectedIn(f, cfg, S \ {e}, depth)

\* The entries to show below directory n walked at `depth`.
ExpectedLines(f, cfg, n, depth) ==
    IF (cfg.max_depth > 0 /\ depth > cfg.max_depth) \/ ~f.nodes[n].readable THEN 0
    ELSE ExpectedIn(f, cfg, f.nodes[n].entries, depth)

C6_OneLinePerEntry ==
    (Returned /\ RootIsDir /\ ~HasCycle(FS))
        => Len(emitted) = ExpectedLines(FS, config, Resolve(FS, dirpath).node, 1)

(***************************************************************************)
(* C7.  max_depth <= 0 puts no bound on the depth.  With max_depth > 0 and *)
(* the root walked at depth 1, a call of the walk returns at the depth     *)
(* guard exactly when its depth exceeds max_depth: a directory at depth    *)
(* max_depth has its line in its parent's listing and none of its children *)
(* is listed, so no entry line lies deeper than max_depth.                 *)
(***************************************************************************)
C7_DepthBound ==
    /\ \A c \in 1..Len(calls) :
          /\ calls[c].depth = IF c = 1 THEN 1 ELSE emitted[calls[c].from].depth + 1
          /\ c > 1 => emitted[calls[c].from].is_dir
          /\ calls[c].outcome # "pending"
                => (calls[c].outcome = "depth"
                       <=> (config.max_depth > 0 /\ calls[c].depth > config.max_depth))
          /\ calls[c].outcome = "depth" => LinesOf(c) = {}
    /\ \A k \in 1..Len(emitted) :
          /\ emitted[k].depth = calls[emitted[k].call].depth
          /\ emitted[k].is_dir => \E c \in 1..Len(calls) : calls[c].from = k
          /\ config.max_depth > 0 => emitted[k].depth <= config.max_depth

\* With max_depth = 1 a subdirectory that has entries got its line and the
\* walk into it returned at the depth guard.
C7_Witness ==
    /\ Returned /\ config.max_depth = 1
    /\ \E c \in 1..Len(calls) :
          /\ calls[c].outcome = "depth"
          /\ emitted[calls[c].from].depth = 1
          /\ FS.nodes[Resolve(FS, calls[c].dir).node].entries # {}

(***************************************************************************)
(* C8.  The lines of the entries of one directory come in strictly         *)
(* increasing strcmp order of their names, whatever order readdir gave.    *)
(***************************************************************************)
C8_SiblingsSorted ==
    \A j, k \in 1..Len(emitted) :
        (j < k /\ emitted[j].call = emitted[k].call)
            => /\ strcmp(emitted[j].name, emitted[k].name) < 0
               /\ emitted[j].idx < emitted[k].idx

\* A directory whose entries readdir gave out of order has all its lines out.
C8_Witness ==
    /\ pc = "walking" /\ stack # <<>> /\ Top.at = "loop"
    /\ Len(Top.items) >= 2 /\ Top.i = Len(Top.items)
    /\ lastShuffled
    /\ \A c \in Listed : c <= Top.call

(***************************************************************************)
(* C9.  In every listed directory and in both formats, the last sibling    *)
(* left after filtering and sorting (index count - 1) has the corner glyph *)
(* and hands the space continuation to its subtree; every other sibling    *)
(* has the branch glyph and hands on the vertical continuation.  The       *)
(* glyphs are those of the configured format.                              *)
(***************************************************************************)
\* The glyph table of the documentation: branch, corner, vertical, space.
Glyphs(fmt) ==
    IF fmt = 0
    THEN [branch |-> "|-- ", corner |-> "+-- ", vertical |-> "|   ", space |-> "    "]
    ELSE [branch |-> "<T><-><-> ", corner |-> "<L><-><-> ",
          vertical |-> "<I>   ", space |-> "    "]

\* Line k is that of the last sibling of its directory.
LastSibling(k) == emitted[k].idx = emitted[k].count - 1

\* The line and the continuation the documentation gives entry line k.
LineGlyph(k) ==
    IF LastSibling(k) THEN Glyphs(config.format).corner
    ELSE Glyphs(config.format).branch

Continuation(k) ==
    IF LastSibling(k) THEN Glyphs(config.format).space
    ELSE Glyphs(config.format).vertical

\* The whole output: the root line and the entry lines.
Rendered == base_name(abs_dir) \o "\n" \o ConcatLines(Len(emitted))

BelowRoot(dir) ==
    LET all == Split(dir, "") IN SubSeq(all, Len(Split(abs_dir, "")) + 1, Len(all))

BuiltIn == {default_skiplist[i] : i \in 1..Len(default_skiplist)}

\* The entries of the directory of call c that are directories (as stat
\* sees them) with a name of the built-in list.
BuiltInDirs(c) ==
    {e \in FS.nodes[calls[c].node].entries : e.name \in BuiltIn /\ e.ok /\ e.to # 0}

\* Call c walks a directory below one with a name of the built-in list.
InBuiltIn(c) ==
    \E i \in 1..Len(BelowRoot(calls[c].dir)) : BelowRoot(calls[c].dir)[i] \in BuiltIn

C10_BuiltInSkipList ==
    /\ config.skip_common
          => /\ \A k \in 1..Len(emitted) :
                    ~(emitted[k].is_dir /\ emitted[k].name \in BuiltIn)
             /\ \A c \in 1..Len(calls) : ~InBuiltIn(c)
    /\ ~config.skip_common
          => \A c \in Listed :
                Over(c) =>
                    /\ \A e \in BuiltInDirs(c) :
                          \E k \in LinesOf(c) :
                              emitted[k].name = e.name /\ emitted[k].is_dir
                    /\ InBuiltIn(c)
                          => \A e \in FS.nodes[calls[c].node].entries :
                                e.ok => \E k \in LinesOf(c) : emitted[k].name = e.name

\* With skip_common set, a directory that holds node_modules and other
\* entries has been listed and the traversal has returned its lines.
C10_Witness ==
    /\ Returned /\ config.skip_common /\ emitted # <<>>
    /\ \E c \in Listed :
          \E e \in BuiltInDirs(c) : e.name = "node_modules" /\ FS.nodes[e.to].entries # {}

(***************************************************************************)
(* C11.  A subdirectory that cannot be opened does not fail the call: its  *)
(* parent has emitted its line, the walk of it returns at opendir and      *)
(* emits no line of its own, the parent goes on to emit the lines of all   *)
(* its entries, dirtree_generate_string returns the rendered string, not   *)
(* NULL, and dirtree_print_to_file returns 0 once fputs has written it.    *)
(***************************************************************************)
\* The directory of call c, as it is on disk, cannot be read.
Unreadable(c) ==
    LET r == Resolve(FS, calls[c].dir)
    IN  r.ok /\ r.kind = "dir" /\ ~FS.nodes[r.node].readable

\* Call c has got past opendir.
PastOpen(c) == calls[c].outcome \in {"noopen", "listed"}

C11_UnopenableSubdir ==
    /\ \A c \in 1..Len(calls) :
          (Unreadable(c) /\ PastOpen(c))
              => /\ calls[c].outcome = "noopen"
                 /\ LinesOf(c) = {}
                 /\ c > 1 => /\ emitted[calls[c].from].is_dir
                             /\ emitted[calls[c].from].path = calls[c].dir
    /\ \A c \in Listed :
          Over(c) => \A k \in LinesOf(c) :
                         Cardinality(LinesOf(c)) = emitted[k].count
    /\ (Returned /\ \E c \in 1..Len(calls) : calls[c].outcome = "noopen")
          => /\ result # NULL /\ result = Rendered
             /\ (pc = "done" /\ output # "") => (ret = 0 /\ output = result)

\* A traversal that met an unreadable subdirectory with entries, which was
\* not the last of its siblings, has been written to the file.
C11_Witness ==
    /\ pc = "done" /\ ret = 0 /\ output = result
    /\ \E c \in 2..Len(calls) :
          /\ calls[c].outcome = "noopen" /\ Unreadable(c)
          /\ FS.nodes[Resolve(FS, calls[c].dir).node].entries # {}
          /\ emitted[calls[c].from].idx < emitted[calls[c].from].count - 1
          /\ \E k \in LinesOf(emitted[calls[c].from].call) : k > calls[c].from

(***************************************************************************)
(* C12.  A call of dirtree_generate_string that follows a call with the    *)
(* same configuration on the same file system returns the same string,     *)
(* byte for byte, whatever the earlier call visited and whatever order     *)
(* readdir gives this time; no step of a call changes the configuration.   *)
(***************************************************************************)
\* The caller holds the string of an earlier call.
HasEarlier == result # NULL

C12_RepeatIdentical ==
    [][ /\ config' = config /\ fs' = fs /\ dirpath' = dirpath
        /\ (Generate /\ HasEarlier) => (pc' = "walking" /\ visited'.size = 0)
        /\ (Finish /\ HasEarlier) => result' = result ]_vars

\* The walk of a later call is back with entry lines, some directory having
\* been listed out of order, and its buffer is the string of the earlier call.
C12_Witness ==
    /\ pc = "walking" /\ stack = <<>> /\ HasEarlier
    /\ Len(emitted) >= 2 /\ Cardinality(Listed) >= 2 /\ lastShuffled
    /\ sb.buffer = result

(***************************************************************************)
(* C13.  Every entry line is prefix + glyph + name + newline, the prefix   *)
(* being one continuation glyph for each ancestor entry from the child of  *)
(* the root downward (vertical for an ancestor that was not the last of    *)
(* its siblings, four spaces for one that was): the root is walked with    *)
(* the empty prefix and an entry at depth k has k - 1 continuation glyphs. *)
(***************************************************************************)
\* The continuation glyphs of the ancestor entries of the directory of
\* call c, outermost first, and how many they are.
RECURSIVE PrefixOf(_)
PrefixOf(c) ==
    IF c = 1 THEN ""
    ELSE PrefixOf(emitted[calls[c].from].call) \o Continuation(calls[c].from)

RECURSIVE GlyphsBefore(_)
GlyphsBefore(c) ==
    IF c = 1 THEN 0 ELSE GlyphsBefore(emitted[calls[c].from].call) + 1

C13_LineForm ==
    /\ \A c \in 1..Len(calls) : calls[c].prefix = PrefixOf(c)
    /\ \A k \in 1..Len(emitted) :
          /\ emitted[k].line
                = PrefixOf(emitted[k].call) \o LineGlyph(k) \o emitted[k].name \o "\n"
          /\ GlyphsBefore(emitted[k].call) = emitted[k].depth - 1

(***************************************************************************)
(* C14.  In one traversal the keys of the visited list are pairwise        *)
(* distinct and 0 <= size <= capacity after every mark_visited.  The key   *)
(* of the root is its resolved absolute path, the key of any other         *)
(* directory is the key of its parent + "/" + the name of its entry, and   *)
(* so the walk is never invoked on a key the list already holds.           *)
(***************************************************************************)
\* The calls whose directory mark_visited has recorded.
Marked == {c \in 1..Len(calls) : calls[c].outcome \in {"marked", "noopen", "listed"}}

C14_VisitedKeys ==
    /\ \A i, j \in 1..visited.size : i # j => visited.paths[i] # visited.paths[j]
    /\ visited.size = Len(visited.paths)
    /\ 0 <= visited.size /\ visited.size <= visited.capacity
    /\ pc = "walking"
          => {visited.paths[i] : i \in 1..visited.size} = {calls[c].dir : c \in Marked}
    /\ \A c \in 1..Len(calls) :
          /\ c = 1 => calls[c].dir = abs_dir /\ abs_dir = realpath(FS, dirpath)
          /\ c > 1 => calls[c].dir
                         = calls[emitted[calls[c].from].call].dir
                             \o "/" \o emitted[calls[c].from].name
          /\ calls[c].outcome # "visited"

=============================================================================
